---- MODULE Spec2Model ----
(***************************************************************************)
(* A model of plot.py (eCO2mix_viz): the loader, the filter/resampler, the  *)
(* chart builder and the Dash application built around them.                *)
(*                                                                          *)
(* Time is counted in half hours since a Monday 00:00 (day 0): a timestamp  *)
(* is a number of half hours, a date is a number of days.  An optional date *)
(* (Python's None or a date) is the empty tuple or a one-element tuple.     *)
(* A DataFrame is a record [columns, index, values]: the column labels in   *)
(* order, the row labels in order, and one row (a function from column      *)
(* label to value) per row label.  A mean is kept exact as [num, den]       *)
(* (num/den), with den = 0 for NaN, the mean of no value.                   *)
(***************************************************************************)
EXTENDS Integers, Sequences, FiniteSets, TLC

VARIABLES
    input,          \* the parameters of the input file given on the command line
    data,           \* the table returned by load_power_data (module-level `data`)
    pc,             \* "start", "loaded" (after load_power_data), "serving" (after make_dash_app)
    call,           \* the last call: its name, its arguments, whether it raised
    filtered,       \* the result of the last filter_data (update_graph's `filtered`)
    fig,            \* plot's `fig` as the last plot call left it
    options,        \* the result of update_sampling_freq_options; the dropdown's `options`
    start_date,     \* date-range-picker.start_date
    end_date,       \* date-range-picker.end_date
    frequency,      \* frequency-dropdown.value
    graph_figure,   \* graph.figure
    pending         \* the callbacks Dash has still to run

vars == <<input, data, pc, call, filtered, fig, options, start_date, end_date,
          frequency, graph_figure, pending>>

----------------------------------------------------------------------------
(* Bounds of the model *)

\* The longest input file, in days.
MaxDays == 3
\* The widest date span (in days) handed to update_sampling_freq_options directly.
MaxSpan == 9

----------------------------------------------------------------------------
(* Python values *)

None == <<>>
Date(d) == <<d>>
NoTable == [columns |-> <<>>, index |-> <<>>, values |-> <<>>]
NoFig == [data |-> <<>>, layout |-> [title |-> <<>>]]
NoCall == [op |-> "none"]

Reverse(s) == [i \in 1..Len(s) |-> s[Len(s) + 1 - i]]
Range(s) == {s[i] : i \in 1..Len(s)}

\* pd.Timedelta(days=n), pd.Timedelta(weeks=n), in half hours
Timedelta_days(n) == n * 48
Timedelta_weeks(n) == n * 336

\* pd.Timedelta(value) of a frequency string, in half hours
Timedelta(value) ==
    CASE value = "30min" -> 1
      [] value = "1H" -> 2
      [] value = "4H" -> 8
      [] value = "1D" -> 48
      [] value = "1W" -> 336

\* pd.Timestamp(date) of a date: its midnight
Timestamp(date) == Timedelta_days(date[1])

\* Timestamp.normalize(): the midnight of the timestamp's day
normalize(ts) == ts - (ts % Timedelta_days(1))

\* Timestamp.date(): the day of a timestamp
date_of(ts) == ts \div Timedelta_days(1)

----------------------------------------------------------------------------
(* Module constants *)

COL_LABELS_XLS ==
    <<"Fioul", "Charbon", "Gaz", "Nucléaire", "Eolien", "Solaire", "Hydraulique",
      "Pompage", "Bioénergies", "Ech. physiques">>

COL_LABELS_PLOT_unreversed ==
    <<"Fioul", "Charbon", "Gaz", "Hydraulique", "Nucléaire", "Solaire", "Eolien",
      "Bioénergies", "Import">> \o <<"Export", "Pompage">>

\* Faulty variant: the list without COL_LABELS_PLOT.reverse()
COL_LABELS_PLOT_not_reversed == COL_LABELS_PLOT_unreversed

COL_LABELS_PLOT == Reverse(COL_LABELS_PLOT_unreversed)

COLORS ==
    [c \in Range(COL_LABELS_PLOT) |->
        CASE c = "Fioul" -> "mediumpurple"
          [] c = "Charbon" -> "darkkhaki"
          [] c = "Gaz" -> "red"
          [] c = "Hydraulique" -> "cornflowerblue"
          [] c = "Nucléaire" -> "gold"
          [] c = "Solaire" -> "orange"
          [] c = "Eolien" -> "paleturquoise"
          [] c = "Bioénergies" -> "mediumseagreen"
          [] c = "Import" -> "darkgray"
          [] c = "Pompage" -> "royalblue"
          [] c = "Export" -> "lightgray"]

----------------------------------------------------------------------------
(* The input files.  A file is a header line, then one data line and one    *)
(* blank line per half hour, then the disclaimer line.  The files of the    *)
(* model span `days` days, lack their middle days when `gap`, and come in   *)
(* two variants: variant 1 starts on a Saturday (day 12), has RTE's column  *)
(* order and an exchange of -500 in every row; variant 2 starts on a Sunday *)
(* (day 13), has another column order and exchanges of both signs.          *)

Inputs ==
    {[first |-> 11 + v, days |-> n, gap |-> g, variant |-> v] :
        n \in 1..MaxDays, g \in BOOLEAN, v \in 1..2}

ValidInput(in) == in.gap => in.days >= 3

FileHeader(in) ==
    IF in.variant = 1
    THEN <<"Périmètre", "Nature", "Date", "Heures", "Consommation">>
            \o COL_LABELS_XLS \o <<"Taux de Co2">>
    ELSE <<"Date", "Heures", "Ech. physiques", "Pompage", "Consommation", "Solaire",
           "Eolien", "Nucléaire", "Bioénergies", "Hydraulique", "Gaz", "Charbon", "Fioul">>

\* The timestamps of the file's data lines, in order.
FileTimes(in) ==
    LET day(k) == IF in.gap /\ k >= 1 THEN k + (in.days - 2) ELSE k
        ndays == IF in.gap THEN 2 ELSE in.days
    IN  [i \in 1..(ndays * 48) |->
            Timedelta_days(in.first + day((i - 1) \div 48)) + ((i - 1) % 48)]

\* The number in column c of the data line of timestamp ts.
FileCell(in, c, ts) ==
    IF c = "Ech. physiques"
    THEN IF in.variant = 1 THEN -500
         ELSE CASE ts % 3 = 0 -> 300
                [] ts % 3 = 1 -> -500
                [] OTHER -> 0
    ELSE LET k == CHOOSE i \in 1..Len(COL_LABELS_XLS) : COL_LABELS_XLS[i] = c
         IN  100 * k + 10 * (ts % 4)

\* The physical lines after the header, numbered from 1 as read_table numbers them.
FileLines(in) ==
    LET times == FileTimes(in)
        n == Len(times)
    IN  [x \in 1..(2 * n + 1) |->
            IF x = 2 * n + 1 THEN [kind |-> "disclaimer"]
            ELSE IF x % 2 = 0 THEN [kind |-> "blank"]
            ELSE [kind |-> "data", Date_Heures |-> times[(x + 1) \div 2]]]

----------------------------------------------------------------------------
(* load_power_data *)

\* The table pd.read_table and set_index leave: the lines kept by skiprows and
\* skipfooter, the columns of usecols in the file's order, indexed by Date_Heures.
read_table(in) ==
    LET lines == FileLines(in)
        kept == SelectSeq([x \in 1..Len(lines) |-> x], LAMBDA x : ~(x > 0 /\ x % 2 = 0))
        body == SubSeq(kept, 1, Len(kept) - 1)
        cols == SelectSeq(FileHeader(in), LAMBDA c : c \in Range(COL_LABELS_XLS))
    IN  [columns |-> cols,
         index |-> [i \in 1..Len(body) |-> lines[body[i]].Date_Heures],
         values |-> [i \in 1..Len(body) |->
                        [c \in Range(cols) |-> FileCell(in, c, lines[body[i]].Date_Heures)]]]

\* Faulty variant: clip(lower=0) written as clip(upper=0)
clip_lower_as_upper(v, lower) == IF v > lower THEN lower ELSE v

\* Series.clip(lower=0) and Series.clip(upper=0)
clip_lower(v, lower) == IF v < lower THEN lower ELSE v
clip_upper(v, upper) == IF v > upper THEN upper ELSE v

\* DataFrame.pop(label): the table without the column
pop(df, label) ==
    LET cols == SelectSeq(df.columns, LAMBDA c : c # label)
    IN  [columns |-> cols,
         index |-> df.index,
         values |-> [i \in 1..Len(df.index) |-> [c \in Range(cols) |-> df.values[i][c]]]]

\* data[labels]: the columns named, in the order named
getitem_columns(df, labels) ==
    [columns |-> labels,
     index |-> df.index,
     values |-> [i \in 1..Len(df.index) |-> [c \in Range(labels) |-> df.values[i][c]]]]

load_power_data(in) ==
    LET read == read_table(in)
        ech_phy == [i \in 1..Len(read.index) |-> read.values[i]["Ech. physiques"]]
        popped == pop(read, "Ech. physiques")
        imports == [i \in 1..Len(ech_phy) |-> clip_lower(ech_phy[i], 0)]
        exports == [i \in 1..Len(ech_phy) |-> clip_upper(ech_phy[i], 0)]
        concat ==
            [columns |-> popped.columns \o <<"Import", "Export">>,
             index |-> popped.index,
             values |-> [i \in 1..Len(popped.index) |->
                 [c \in Range(popped.columns) \cup {"Import", "Export"} |->
                     CASE c = "Import" -> imports[i]
                       [] c = "Export" -> exports[i]
                       [] OTHER -> popped.values[i][c]]]]
    IN  getitem_columns(concat, COL_LABELS_PLOT)

----------------------------------------------------------------------------
(* filter_data *)

RECURSIVE bisect_left(_, _, _, _)
\* binary search in the sorted row labels: the number of labels < ts, known to be
\* at least lo and at most hi
bisect_left(index, ts, lo, hi) ==
    IF lo >= hi THEN lo
    ELSE LET mid == (lo + hi) \div 2
         IN  IF index[mid + 1] < ts THEN bisect_left(index, ts, mid + 1, hi)
             ELSE bisect_left(index, ts, lo, mid)

\* Index.searchsorted(ts, side="left") on the sorted row labels
searchsorted(index, ts) == bisect_left(index, ts, 0, Len(index))

\* rows lo+1 .. hi of a table
iloc(df, lo, hi) ==
    [columns |-> df.columns,
     index |-> IF hi > lo THEN SubSeq(df.index, lo + 1, hi) ELSE <<>>,
     values |-> IF hi > lo THEN SubSeq(df.values, lo + 1, hi) ELSE <<>>]

\* Faulty variant: the bounds are put in order before slicing
data_slice_sorted_bounds(df, start, end) ==
    LET swap == start # None /\ end # None /\ start[1] > end[1]
        first == IF swap THEN end ELSE start
        last == IF swap THEN start ELSE end
        lo == IF first = None THEN 0 ELSE searchsorted(df.index, Timestamp(first))
        hi == IF last = None THEN Len(df.index)
              ELSE searchsorted(df.index, Timestamp(last) + Timedelta_days(1))
    IN  iloc(df, lo, hi)

\* Faulty variant: end_date is taken as its midnight, not as its whole day
data_slice_end_midnight(df, start, end) ==
    LET lo == IF start = None THEN 0 ELSE searchsorted(df.index, Timestamp(start))
        hi == IF end = None THEN Len(df.index)
              ELSE searchsorted(df.index, Timestamp(end) + 1)
    IN  iloc(df, lo, hi)

\* data[start_date:end_date] with dates (partial string indexing): from the
\* midnight of start_date to the end of the day end_date, each bound open when None
data_slice(df, start, end) ==
    LET lo == IF start = None THEN 0 ELSE searchsorted(df.index, Timestamp(start))
        hi == IF end = None THEN Len(df.index)
              ELSE searchsorted(df.index, Timestamp(end) + Timedelta_days(1))
    IN  iloc(df, lo, hi)

\* Week(weekday=6): the Sunday strictly before and strictly after a midnight
\* (day 0 is a Monday, a Sunday is a day d with d % 7 = 6)
minus_week_offset(ts) ==
    LET wd == date_of(ts) % 7
    IN  IF wd = 6 THEN ts - Timedelta_weeks(1) ELSE ts - Timedelta_days(wd + 1)
plus_week_offset(ts) ==
    LET wd == date_of(ts) % 7
    IN  IF wd = 6 THEN ts + Timedelta_weeks(1) ELSE ts + Timedelta_days(6 - wd)

\* _get_timestamp_range_edges: the first and last bin edge for rows first..last
range_edges(first, last, freq) ==
    IF freq = "1W"
    THEN <<minus_week_offset(normalize(first)), plus_week_offset(normalize(last))>>
    ELSE LET w == Timedelta(freq)
             origin == normalize(first)
             foffset == (first - origin) % w
             loffset == (last - origin) % w
         IN  <<IF foffset > 0 THEN first - foffset ELSE first,
               IF loffset > 0 THEN last + (w - loffset) ELSE last + w>>

\* date_range(start, end, freq): the bin edges, as labels
date_range(first, last, freq) ==
    [k \in 1..((last - first) \div Timedelta(freq) + 1) |-> first + (k - 1) * Timedelta(freq)]

\* lib.generate_bins_dt64: per bin, the number of rows before its right edge (the
\* library finds them in one pass over the sorted labels)
generate_bins(index, bin_edges) ==
    LET bins == [k \in 1..(Len(bin_edges) - 1) |-> searchsorted(index, bin_edges[k + 1])]
    IN  SubSeq(bins, 1, Len(bins))

\* _get_time_bins: the labels of the bins and, per bin, the number of rows up to
\* its right edge.  Tick frequencies close and label a bin on the left; a week
\* closes and labels it on the right, its edge moved to the last nanosecond of its
\* Sunday (here: a row is in the bin when it is before the next midnight), and the
\* last edge is dropped when the one before it is already past the last row.
time_bins(index, freq) ==
    IF Len(index) = 0 THEN [labels |-> <<>>, bins |-> <<>>]
    ELSE
    LET edges == range_edges(index[1], index[Len(index)], freq)
        binner == date_range(edges[1], edges[2], freq)
    IN  IF freq = "1W"
        THEN LET adjusted == [k \in 1..Len(binner) |-> binner[k] + Timedelta_days(1)]
                 drop == adjusted[Len(adjusted) - 1] > index[Len(index)]
                 n == IF drop THEN Len(binner) - 1 ELSE Len(binner)
                 bin_edges == SubSeq(adjusted, 1, n)
             IN  [labels |-> SubSeq(binner, 2, n),
                  bins |-> generate_bins(index, bin_edges)]
        ELSE [labels |-> SubSeq(binner, 1, Len(binner) - 1),
              bins |-> generate_bins(index, binner)]

RECURSIVE sum_rows(_, _, _, _)
\* the sum of column c over rows lo+1 .. hi
sum_rows(values, c, lo, hi) ==
    IF hi <= lo THEN 0
    ELSE IF hi = lo + 1 THEN values[hi][c]
    ELSE LET mid == (lo + hi) \div 2
         IN  sum_rows(values, c, lo, mid) + sum_rows(values, c, mid, hi)

\* Faulty variant: .sum() for .mean()
mean_as_sum(values, c, lo, hi) ==
    [num |-> sum_rows(values, c, lo, hi), den |-> IF hi > lo THEN 1 ELSE 0]

\* the mean of column c over rows lo+1 .. hi (NaN, den = 0, over no row)
mean(values, c, lo, hi) ==
    [num |-> sum_rows(values, c, lo, hi), den |-> IF hi > lo THEN hi - lo ELSE 0]

\* data_slice.resample(frequency).mean()
resample_mean(df, freq) ==
    LET tb == time_bins(df.index, freq)
        lo(k) == IF k = 1 THEN 0 ELSE tb.bins[k - 1]
    IN  [columns |-> df.columns,
         index |-> tb.labels,
         values |-> [k \in 1..Len(tb.labels) |->
                        [c \in Range(df.columns) |-> mean(df.values, c, lo(k), tb.bins[k])]]]

filter_data(df, start, end, freq) == resample_mean(data_slice(df, start, end), freq)

\* Faulty variant: the slice is taken in place
filter_data_argument_sliced(df, start, end, freq) == data_slice(df, start, end)

\* The caller's table after filter_data: the slice and the resampled table are
\* new objects, nothing is assigned to or changed in the argument.
filter_data_argument(df, start, end, freq) == df

----------------------------------------------------------------------------
(* plot *)

\* Faulty variant: only 'Pompage' is put in group 2
stackgroup_pompage_only(col_name) == IF col_name \in {"Pompage"} THEN 2 ELSE 1

\* group = 2 if col_name in ['Pompage', 'Export'] else 1
stackgroup(col_name) == IF col_name \in {"Pompage", "Export"} THEN 2 ELSE 1

\* The go.Scatter trace of one column
Scatter(df, col_name) ==
    LET group == stackgroup(col_name)
        color == COLORS[col_name]
    IN  [x |-> df.index,
         y |-> [k \in 1..Len(df.index) |-> df.values[k][col_name]],
         mode |-> "lines",
         line |-> [width |-> 0, color |-> color],
         fillcolor |-> color,
         name |-> col_name,
         stackgroup |-> group,
         hovertemplate |-> <<col_name, ": %{y} MW<extra></extra>">>]

\* plot(data): `fig` as the call leaves it, and the exception it raised if any.  The
\* traces are added first; the title then reads data.index[0] and data.index[-1],
\* an IndexError on a table without rows.
plot(df) ==
    LET traces == [i \in 1..Len(df.columns) |-> Scatter(df, df.columns[i])]
    IN  IF Len(df.index) = 0
        THEN [fig |-> [data |-> traces, layout |-> [title |-> <<>>]],
              raised |-> "IndexError"]
        ELSE [fig |-> [data |-> traces,
                       layout |-> [title |-> <<df.index[1], df.index[Len(df.index)]>>,
                                   xaxis |-> "Date",
                                   yaxis |-> "Puissance produite en MV",
                                   legend |-> "Source d'énergie",
                                   height |-> 700,
                                   hovermode |-> "x"]],
              raised |-> "none"]

----------------------------------------------------------------------------
(* make_dash_app *)

\* The options of the frequency dropdown, as update_sampling_freq_options lists them
freq_options ==
    <<[label |-> "30 minutes", value |-> "30min"],
      [label |-> "1 heure", value |-> "1H"],
      [label |-> "4 heures", value |-> "4H"],
      [label |-> "1 jour", value |-> "1D"],
      [label |-> "1 semaine", value |-> "1W"]>>

\* Faulty variant: > for >=
option_disabled_strict(value, span_days) == Timedelta(value) > span_days

\* opt['disabled'] of an option for a span
option_disabled(value, span_days) == Timedelta(value) >= span_days

update_sampling_freq_options(start, end) ==
    IF start = None \/ end = None THEN freq_options
    ELSE LET span_days == Timestamp(end) + Timedelta_days(1) - Timestamp(start)
         IN  [i \in 1..Len(freq_options) |->
                [label |-> freq_options[i].label,
                 value |-> freq_options[i].value,
                 disabled |-> option_disabled(freq_options[i].value, span_days)]]

\* data.index[0].date() and data.index[-1].date()
data_start_date == date_of(data.index[1])
data_end_date == date_of(data.index[Len(data.index)])

\* What the dropdown lets the user pick: the options not marked disabled
selectable(opts) ==
    {opts[i].value : i \in {j \in 1..Len(opts) :
                                "disabled" \notin DOMAIN opts[j] \/ ~opts[j].disabled}}

----------------------------------------------------------------------------
(* The program *)

Frequencies == {freq_options[i].value : i \in 1..Len(freq_options)}

\* The dates a caller passes: from the day before the data to the day after it, or None.
CallDates == {Date(d) : d \in (input.first - 1)..(input.first + input.days)} \cup {None}

\* The dates handed to update_sampling_freq_options directly: any span up to MaxSpan
\* days ending on a day of the data, the span of start_date after end_date, or None.
OptionDates ==
    {<<Date(e - n + 1), Date(e)>> :
        e \in input.first..(input.first + input.days - 1), n \in 0..MaxSpan}
    \cup {<<None, None>>, <<None, Date(input.first)>>, <<Date(input.first), None>>}

Init ==
    /\ input \in {in \in Inputs : ValidInput(in)}
    /\ data = NoTable
    /\ pc = "start"
    /\ call = NoCall
    /\ filtered = NoTable
    /\ fig = NoFig
    /\ options = <<>>
    /\ start_date = None
    /\ end_date = None
    /\ frequency = "none"
    /\ graph_figure = NoFig
    /\ pending = {}

\* __main__: data = load_power_data(args.filepath)
Load ==
    /\ pc = "start"
    /\ data' = load_power_data(input)
    /\ pc' = "loaded"
    /\ UNCHANGED <<input, call, filtered, fig, options, start_date, end_date, frequency,
                   graph_figure, pending>>

\* A call of filter_data(data, start, end, freq)
CallFilter(start, end, freq) ==
    /\ pc = "loaded" /\ call.op = "none"
    /\ call' = [op |-> "filter_data", start_date |-> start, end_date |-> end,
                frequency |-> freq, raised |-> "none"]
    /\ filtered' = filter_data(data, start, end, freq)
    /\ data' = filter_data_argument(data, start, end, freq)
    /\ UNCHANGED <<input, pc, fig, options, start_date, end_date, frequency,
                   graph_figure, pending>>

\* A call of plot(filtered) on the table filter_data returned
CallPlot ==
    /\ pc = "loaded" /\ call.op = "filter_data"
    /\ LET r == plot(filtered)
       IN  /\ fig' = r.fig
           /\ call' = [call EXCEPT !.op = "plot", !.raised = r.raised]
    /\ UNCHANGED <<input, data, pc, filtered, options, start_date, end_date, frequency,
                   graph_figure, pending>>

\* update_graph(start, end, freq): filter_data, then plot; the figure is returned
\* unless plot raised
update_graph(start, end, freq) ==
    LET result == filter_data(data, start, end, freq)
        plotted == plot(result)
    IN  /\ call' = [op |-> "update_graph", start_date |-> start, end_date |-> end,
                    frequency |-> freq, raised |-> plotted.raised]
        /\ filtered' = result
        /\ data' = filter_data_argument(data, start, end, freq)
        /\ fig' = plotted.fig
        /\ graph_figure' = IF plotted.raised = "none" THEN plotted.fig ELSE graph_figure

\* A call of update_graph(start, end, freq)
CallUpdateGraph(start, end, freq) ==
    /\ pc = "loaded" /\ call.op = "none"
    /\ update_graph(start, end, freq)
    /\ UNCHANGED <<input, pc, options, start_date, end_date, frequency, pending>>

\* A call of update_sampling_freq_options(start, end)
CallOptions(start, end) ==
    /\ pc = "loaded" /\ call.op = "none"
    /\ call' = [op |-> "update_sampling_freq_options", start_date |-> start,
                end_date |-> end, raised |-> "none"]
    /\ options' = update_sampling_freq_options(start, end)
    /\ UNCHANGED <<input, data, pc, filtered, fig, start_date, end_date, frequency,
                   graph_figure, pending>>

\* The caller is done with what the call returned; the loaded table stays.
Return ==
    /\ pc = "loaded" /\ call.op # "none"
    /\ call' = NoCall
    /\ filtered' = NoTable
    /\ fig' = NoFig
    /\ options' = <<>>
    /\ graph_figure' = NoFig
    /\ UNCHANGED <<input, data, pc, start_date, end_date, frequency, pending>>

Next ==
    \/ Load
    \/ \E s \in CallDates, e \in CallDates, f \in Frequencies : CallFilter(s, e, f)
    \/ CallPlot
    \/ \E s \in CallDates, e \in CallDates, f \in Frequencies : CallUpdateGraph(s, e, f)
    \/ \E r \in OptionDates : CallOptions(r[1], r[2])
    \/ Return

Spec == Init /\ [][Next]_vars

----------------------------------------------------------------------------
(* The Dash application.  Dash runs every callback once when the page loads  *)
(* and, after a change of an input property, the callbacks that read it, in *)
(* no fixed order.  The user acts when no callback is left to run.          *)

\* make_dash_app(data): the layout's initial properties
MakeApp ==
    /\ pc = "loaded" /\ call.op = "none"
    /\ pc' = "serving"
    /\ start_date' = Date(date_of(Timestamp(Date(data_end_date)) - Timedelta_weeks(1)))
    /\ end_date' = Date(data_end_date)
    /\ options' = update_sampling_freq_options(None, None)
    /\ frequency' = "1H"
    /\ pending' = {"update_graph", "update_sampling_freq_options"}
    /\ UNCHANGED <<input, data, call, filtered, fig, graph_figure>>

\* The user picks both dates of the range, within min_date_allowed and
\* max_date_allowed, the end not before the start (minimum_nights=0).
UserSelectRange(start, end) ==
    /\ pc = "serving" /\ pending = {}
    /\ start \in data_start_date..data_end_date
    /\ end \in start..data_end_date
    /\ <<Date(start), Date(end)>> # <<start_date, end_date>>
    /\ start_date' = Date(start)
    /\ end_date' = Date(end)
    /\ pending' = {"update_graph", "update_sampling_freq_options"}
    /\ UNCHANGED <<input, data, pc, call, filtered, fig, options, frequency, graph_figure>>

\* The user clears the range (clearable=True): both dates become None.
UserClearRange ==
    /\ pc = "serving" /\ pending = {}
    /\ <<start_date, end_date>> # <<None, None>>
    /\ start_date' = None
    /\ end_date' = None
    /\ pending' = {"update_graph", "update_sampling_freq_options"}
    /\ UNCHANGED <<input, data, pc, call, filtered, fig, options, frequency, graph_figure>>

\* The user picks another frequency among the options not disabled.
UserSelectFrequency(value) ==
    /\ pc = "serving" /\ pending = {}
    /\ value \in selectable(options)
    /\ value # frequency
    /\ frequency' = value
    /\ pending' = {"update_graph"}
    /\ UNCHANGED <<input, data, pc, call, filtered, fig, options, start_date, end_date,
                   graph_figure>>

\* Dash runs update_graph on the current properties.
RunUpdateGraph ==
    /\ pc = "serving" /\ "update_graph" \in pending
    /\ update_graph(start_date, end_date, frequency)
    /\ pending' = pending \ {"update_graph"}
    /\ UNCHANGED <<input, pc, options, start_date, end_date, frequency>>

\* Dash runs update_sampling_freq_options on the current properties.
RunUpdateOptions ==
    /\ pc = "serving" /\ "update_sampling_freq_options" \in pending
    /\ options' = update_sampling_freq_options(start_date, end_date)
    /\ pending' = pending \ {"update_sampling_freq_options"}
    /\ UNCHANGED <<input, data, pc, call, filtered, fig, start_date, end_date, frequency,
                   graph_figure>>

NextUI ==
    \/ Load
    \/ MakeApp
    \/ \E s \in input.first..(input.first + input.days - 1),
          e \in input.first..(input.first + input.days - 1) : UserSelectRange(s, e)
    \/ UserClearRange
    \/ \E v \in Frequencies : UserSelectFrequency(v)
    \/ RunUpdateGraph
    \/ RunUpdateOptions

SpecUI == Init /\ [][NextUI]_vars

----------------------------------------------------------------------------
(* Properties *)

Max(a, b) == IF a >= b THEN a ELSE b
Min(a, b) == IF a <= b THEN a ELSE b

\* `filtered` is what filter_data returned on the arguments recorded in `call`
HasFiltered == call.op \in {"filter_data", "plot", "update_graph"}
\* `fig` is the figure plot built from `filtered`
HasFig == call.op \in {"plot", "update_graph"}

\* The first half hour not in the range [start, end] any more, and the first in it;
\* an open bound is before, or after, every row of the data
RangeFrom(start) == IF start = None THEN 0 ELSE Timestamp(start)
RangeUpTo(end) ==
    IF end = None THEN data.index[Len(data.index)] + 1 ELSE Timestamp(end) + Timedelta_days(1)

\* The bin of width freq a timestamp is in, bins counted from day 0 (a Monday)
BinOf(ts, freq) == ts \div Timedelta(freq)

\* C1: once loaded, the table's columns are exactly Pompage, Export, Import,
\* Bioénergies, Eolien, Solaire, Nucléaire, Hydraulique, Gaz, Charbon, Fioul, in
\* that order, none twice, 'Ech. physiques' not among them, and every row has
\* exactly these columns.
C1_LoadedColumnsCanonical ==
    pc # "start" =>
        /\ data.columns = <<"Pompage", "Export", "Import", "Bioénergies", "Eolien", "Solaire",
                            "Nucléaire", "Hydraulique", "Gaz", "Charbon", "Fioul">>
        /\ Cardinality(Range(data.columns)) = Len(data.columns)
        /\ "Ech. physiques" \notin Range(data.columns)
        /\ \A i \in 1..Len(data.values) : DOMAIN data.values[i] = Range(data.columns)

C1_Witness ==
    /\ pc = "loaded"
    /\ input.variant = 2
    /\ Len(data.index) > 0
    /\ data.columns[1] = "Pompage"

\* C2: every data line of the file is a row of the loaded table, and in every row
\* Import = max(original, 0) and Export = min(original, 0) for the original signed
\* exchange of that row's line, so Import + Export = original, Import >= 0 and
\* Export <= 0.
C2_ImportExportSplit ==
    pc # "start" =>
        /\ data.index = FileTimes(input)
        /\ \A i \in 1..Len(data.index) :
            LET original == FileCell(input, "Ech. physiques", data.index[i])
                row == data.values[i]
            IN  /\ row["Import"] = Max(original, 0)
                /\ row["Export"] = Min(original, 0)
                /\ row["Import"] + row["Export"] = original
                /\ row["Import"] >= 0
                /\ row["Export"] <= 0

C2_Witness ==
    /\ pc = "loaded"
    /\ \E i \in 1..Len(data.index) :
        /\ FileCell(input, "Ech. physiques", data.index[i]) = 300
        /\ data.values[i]["Import"] = 300
        /\ data.values[i]["Export"] = 0
    /\ \E i \in 1..Len(data.index) :
        /\ FileCell(input, "Ech. physiques", data.index[i]) = -500
        /\ data.values[i]["Import"] = 0
        /\ data.values[i]["Export"] = -500

\* C3: filter_data with start_date after end_date returns, without raising, a table
\* without rows whose columns are the input table's, in the same order.
C3_ReversedRangeEmpty ==
    (/\ call.op = "filter_data"
     /\ call.start_date # None /\ call.end_date # None
     /\ call.start_date[1] > call.end_date[1]) =>
        /\ call.raised = "none"
        /\ filtered.index = <<>>
        /\ filtered.values = <<>>
        /\ filtered.columns = data.columns

C3_Witness ==
    /\ call.op = "filter_data"
    /\ call.start_date # None /\ call.end_date # None
    /\ call.start_date[1] > call.end_date[1]
    /\ {call.start_date[1], call.end_date[1]} \subseteq {date_of(data.index[i]) : i \in 1..Len(data.index)}
    /\ filtered.index = <<>>
    /\ Len(filtered.columns) = 11

\* The range [start, end] of the call is made of days that all have their 48 rows.
RangeCovered ==
    /\ call.start_date # None /\ call.end_date # None
    /\ call.start_date[1] <= call.end_date[1]
    /\ ~input.gap
    /\ call.start_date[1] >= input.first
    /\ call.end_date[1] <= input.first + input.days - 1

\* The width of the range of the call, in half hours
RangeSpan == Timestamp(call.end_date) + Timedelta_days(1) - Timestamp(call.start_date)

\* C4 as stated: the number of rows of filter_data's result is the number of
\* complete bins of width f covering [start, end] (read either as the whole bins
\* that fit in the range or as the bins needed to cover it), here for the ranges
\* whose days all have their rows.
C4_RowCountCompleteBins ==
    (HasFiltered /\ RangeCovered) =>
        LET w == Timedelta(call.frequency)
        IN  Len(filtered.index) \in {RangeSpan \div w, (RangeSpan + w - 1) \div w}

\* C4 amended: the result has no row when no row of the table is in the range;
\* otherwise it has one row per bin of width f, bins aligned on midnight (a week on
\* Monday), from the bin of the first row in the range to the bin of the last one,
\* both included; for a range of whole days that all have their rows and f of a day
\* or less, that is the width of the range divided by f.
C4_RowCountBinsSpanned ==
    HasFiltered =>
        LET lo == searchsorted(data.index, RangeFrom(call.start_date))
            hi == searchsorted(data.index, RangeUpTo(call.end_date))
            f == call.frequency
        IN  /\ hi <= lo => Len(filtered.index) = 0
            /\ hi > lo =>
                Len(filtered.index) = BinOf(data.index[hi], f) - BinOf(data.index[lo + 1], f) + 1
            /\ (RangeCovered /\ f # "1W") =>
                Len(filtered.index) * Timedelta(f) = RangeSpan

C4_Witness ==
    /\ call.op = "filter_data"
    /\ RangeCovered
    /\ call.frequency = "1W"
    /\ call.end_date[1] = call.start_date[1] + 1
    /\ Len(filtered.index) = 2

\* The rows of the table that are in the range of the call and in [from, upto)
RowsIn(from, upto) ==
    LET lo == searchsorted(data.index, Max(from, RangeFrom(call.start_date)))
        hi == searchsorted(data.index, Min(upto, RangeUpTo(call.end_date)))
    IN  <<lo, Max(lo, hi)>>

\* The half hours of the bin a row label of the result stands for
BinFrom(label, freq) == IF freq = "1W" THEN label - Timedelta_days(6) ELSE label
BinUpTo(label, freq) ==
    IF freq = "1W" THEN label + Timedelta_days(1) ELSE label + Timedelta(freq)

\* The full range of a two-day file with an exchange of -500 in every row, at 1 day
TwoDayScenario ==
    /\ input.days = 2 /\ input.variant = 1
    /\ call.start_date = Date(input.first) /\ call.end_date = Date(input.first + 1)
    /\ call.frequency = "1D"

\* C5: every row of filter_data's result holds, for every column, the mean of the
\* column over exactly the rows of the table that are in the range and in the
\* row's bin (their sum over their number); a two-day file at 30 minutes with an
\* exchange of -500 in every row, filtered over its full range at 1 day, gives 2
\* rows, each with Export = -500 and Import = 0.
C5_BinMeans ==
    HasFiltered =>
        /\ \A k \in 1..Len(filtered.index) :
            LET r == RowsIn(BinFrom(filtered.index[k], call.frequency),
                            BinUpTo(filtered.index[k], call.frequency))
            IN  \A c \in Range(data.columns) :
                    /\ filtered.values[k][c].den = r[2] - r[1]
                    /\ filtered.values[k][c].num = sum_rows(data.values, c, r[1], r[2])
        /\ TwoDayScenario =>
            /\ Len(filtered.index) = 2
            /\ \A k \in 1..Len(filtered.index) :
                /\ filtered.values[k]["Export"].den > 0
                /\ filtered.values[k]["Export"].num = -500 * filtered.values[k]["Export"].den
                /\ filtered.values[k]["Import"].den > 0
                /\ filtered.values[k]["Import"].num = 0

C5_Witness ==
    /\ call.op = "filter_data"
    /\ TwoDayScenario
    /\ Len(filtered.index) = 2
    /\ filtered.values[1]["Export"] = [num |-> -24000, den |-> 48]
    /\ filtered.values[2]["Import"] = [num |-> 0, den |-> 48]

\* C6: plot adds one trace per column of its table, in the table's column order;
\* the trace of a column is in stack group 2 if the column is Pompage or Export and
\* in stack group 1 otherwise, so no trace of another column shares the group of
\* Export or Pompage.
C6_TraceGroups ==
    HasFig =>
        /\ Len(fig.data) = Len(filtered.columns)
        /\ \A i \in 1..Len(fig.data) :
            /\ fig.data[i].name = filtered.columns[i]
            /\ fig.data[i].stackgroup \in {1, 2}
            /\ fig.data[i].stackgroup = 2 <=> fig.data[i].name \in {"Pompage", "Export"}
        /\ \A i, j \in 1..Len(fig.data) :
            (fig.data[i].name \in {"Pompage", "Export"}
                /\ fig.data[j].name \notin {"Pompage", "Export"})
            => fig.data[i].stackgroup # fig.data[j].stackgroup

C6_Witness ==
    /\ call.op = "plot"
    /\ call.raised = "none"
    /\ Len(fig.data) = 11
    /\ \E i, j \in 1..Len(fig.data) :
        /\ fig.data[i].name = "Export" /\ fig.data[i].stackgroup = 2
        /\ fig.data[j].name = "Nucléaire" /\ fig.data[j].stackgroup = 1

C8_DisabledIffWider ==
    (/\ call.op = "update_sampling_freq_options"
     /\ call.start_date # None /\ call.end_date # None) =>
        \A i \in 1..Len(options) :
            options[i].disabled <=> Timedelta(options[i].value) > RangeSpan

\* C8 amended: with both dates given, an option is marked disabled exactly when its
\* frequency is as wide as the span end_date + 1 day - start_date or wider; with
\* start_date or end_date None no option is marked.  The options are always the
\* five frequencies, in order.
C8_DisabledIffNotNarrower ==
    call.op = "update_sampling_freq_options" =>
        /\ [i \in 1..Len(options) |-> options[i].value] = <<"30min", "1H", "4H", "1D", "1W">>
        /\ (call.start_date # None /\ call.end_date # None) =>
            \A i \in 1..Len(options) :
                /\ "disabled" \in DOMAIN options[i]
                /\ options[i].disabled <=> Timedelta(options[i].value) >= RangeSpan
        /\ (call.start_date = None \/ call.end_date = None) =>
            \A i \in 1..Len(options) : "disabled" \notin DOMAIN options[i]

C8_Witness ==
    /\ call.op = "update_sampling_freq_options"
    /\ call.start_date # None /\ call.end_date # None
    /\ RangeSpan = Timedelta("1W")
    /\ options[5].disabled
    /\ ~options[4].disabled

\* C9: update_graph is never called with a frequency that
\* update_sampling_freq_options marks disabled for the date range of the call.
C9_FrequencyNeverDisabled ==
    (pc = "serving" /\ call.op = "update_graph") =>
        call.frequency \in
            selectable(update_sampling_freq_options(call.start_date, call.end_date))

\* C10: update_graph returns a figure, whatever range and frequency the page
\* supplies: it does not raise, even when filter_data returns a table without rows.
C10_UpdateGraphReturns ==
    (pc = "serving" /\ call.op = "update_graph") => call.raised = "none"

====
